---- MODULE Spec2Model ----
(***************************************************************************)
(* gojade: the scanner (package jade, lexer and its state functions), the  *)
(* parse nodes and their HTML serialisation (jade/node.go), and the tree   *)
(* builder that turns the token stream into a node tree.                   *)
(*                                                                         *)
(* Strings are Go strings restricted to ASCII, so one rune is one byte and *)
(* utf8.DecodeRuneInString always has width 1. Positions are 0-based byte  *)
(* offsets as in the source.                                               *)
(***************************************************************************)
EXTENDS Integers, Sequences, FiniteSets, TLC

VARIABLES lx, tb, toks

vars == <<lx, tb, toks>>

---------------------------------------------------------------------------
(* Go string primitives *)

\* s[i]
Char(s, i) == SubSeq(s, i + 1, i + 1)

\* s[a:b]
Slice(s, a, b) == SubSeq(s, a + 1, b)

\* strings.HasPrefix
HasPrefix(s, p) == Len(s) >= Len(p) /\ SubSeq(s, 1, Len(p)) = p

\* strings.Index(s, sep) for a one-byte sep: offset of the first sep, else -1
RECURSIVE IndexFrom(_, _, _)
IndexFrom(s, sep, i) ==
    IF i >= Len(s) THEN -1
    ELSE IF Char(s, i) = sep THEN i
    ELSE IndexFrom(s, sep, i + 1)

Index(s, sep) == IndexFrom(s, sep, 0)

---------------------------------------------------------------------------
(* item types (itemName) and lexer constants *)

itemError == "error"
itemText == "text"
itemEndl == "endl"
itemTag == "tag"
itemAttr == "attr"
itemIdentSpace == "identSpace"
itemIdentTab == "identTab"
itemDoctype == "doctype"
itemComment == "comment"
itemBlank == "blank"
itemId == "id"
itemClass == "class"
itemEOF == "EOF"

\* the rune next() returns at the end of the input
eof == "<eof>"

Comment == "//"
docTypeShort == "!!!"
docTypeLong == "doctype"

\* make(chan item, 2)
ChanCap == 2

item(t, v) == [typ |-> t, val |-> v]

---------------------------------------------------------------------------
(* The lexer. halt records how a run of the scanner stopped abnormally:    *)
(*   "panic"    a Go run-time panic (index or slice bounds out of range),  *)
(*   "deadlock" a send on the full items channel, which no one drains      *)
(*              while the state function runs,                             *)
(*   "spin"     a loop whose iteration leaves the lexer unchanged.         *)
(* Every primitive is the identity on a halted lexer.                      *)

Running(l) == l.halt = "none"

\* lex(name, input, left, right)
lex(input) ==
    [input |-> input, state |-> "lexTag", pos |-> 0, start |-> 0,
     width |-> 0, items |-> <<>>, halt |-> "none"]

\* the rune l.next() returns
rune(l) == IF l.pos >= Len(l.input) THEN eof ELSE Char(l.input, l.pos)

next(l) ==
    IF ~Running(l) THEN l
    ELSE IF l.pos >= Len(l.input) THEN [l EXCEPT !.width = 0]
    ELSE [l EXCEPT !.width = 1, !.pos = @ + 1]

backup(l) == IF ~Running(l) THEN l ELSE [l EXCEPT !.pos = @ - l.width]

\* peek returns rune(l); this is its effect on the lexer
peek(l) == backup(next(l))

emit(l, t) ==
    IF ~Running(l) THEN l
    ELSE IF l.start > l.pos \/ l.pos > Len(l.input)
         THEN [l EXCEPT !.halt = "panic"]
    ELSE IF Len(l.items) >= ChanCap THEN [l EXCEPT !.halt = "deadlock"]
    ELSE [l EXCEPT !.items = Append(@, item(t, Slice(l.input, l.start, l.pos))),
                   !.start = l.pos]

ignore(l) == IF ~Running(l) THEN l ELSE [l EXCEPT !.start = l.pos]

errorf(l, msg) ==
    IF ~Running(l) THEN l
    ELSE IF Len(l.items) >= ChanCap THEN [l EXCEPT !.halt = "deadlock"]
    ELSE [l EXCEPT !.items = Append(@, item(itemError, msg)), !.state = "nil"]

\* return <state function>
return(l, fn) == IF ~Running(l) THEN l ELSE [l EXCEPT !.state = fn]

\* the index expression l.input[l.start]
panic(l) == [l EXCEPT !.halt = "panic"]

StartInRange(l) == l.start < Len(l.input)

---------------------------------------------------------------------------
(* State functions. Each operator is one invocation l.state(l): the lexer  *)
(* after it, with state set to the state function it returns.              *)

\* lexTagScan with the separator space left in the text that follows the tag
lexTagScan_KeepSeparator(l) ==
    LET r == rune(l)
        p == peek(l)
    IN  CASE r = eof -> return(IF p.pos > p.start THEN emit(p, itemTag) ELSE p, "lexEOF")
          [] r = " " -> return(emit(p, itemTag), "lexText")
          [] r = "(" -> return(ignore(next(emit(p, itemTag))), "lexAttr")
          [] r = "." -> return(ignore(next(emit(p, itemTag))), "lexClass")
          [] r = "#" -> return(ignore(next(emit(p, itemTag))), "lexId")
          [] r \in {"\n", "\r"} -> return(next(emit(p, itemTag)), "lexNewLine")
          [] OTHER -> return(next(p), "lexTag")

\* lexTag, lines 242-276: the scan of the tag name by the peeked rune
lexTagScan(l) ==
    LET r == rune(l)
        p == peek(l)
    IN  CASE r = eof -> return(IF p.pos > p.start THEN emit(p, itemTag) ELSE p, "lexEOF")
          [] r = " " -> return(ignore(next(emit(p, itemTag))), "lexText")
          [] r = "(" -> return(ignore(next(emit(p, itemTag))), "lexAttr")
          [] r = "." -> return(ignore(next(emit(p, itemTag))), "lexClass")
          [] r = "#" -> return(ignore(next(emit(p, itemTag))), "lexId")
          [] r \in {"\n", "\r"} -> return(next(emit(p, itemTag)), "lexNewLine")
          [] OTHER -> return(next(p), "lexTag")

\* lexTag with no Tag token emitted for a line that starts with "." or "#"
lexTag_NoTagForShorthand(l) ==
    IF ~StartInRange(l) THEN panic(l)
    ELSE LET c == Char(l.input, l.start)
             rest == Slice(l.input, l.start, Len(l.input))
         IN  CASE c = "." -> return(next(l), "lexClass")
               [] c = "#" -> return(next(l), "lexId")
               [] c \in {" ", "\t"} -> return(l, "lexIndent")
               [] c = "|" -> return(ignore(l), "lexText")
               [] c \in {"\r", "\n"} -> return(l, "lexNewLine")
               [] OTHER ->
                    IF HasPrefix(rest, Comment) THEN return(l, "lexComment")
                    ELSE IF HasPrefix(rest, docTypeShort) \/ HasPrefix(rest, docTypeLong)
                         THEN return(l, "lexDocType")
                    ELSE lexTagScan(l)

\* lexTag, lines 214-277
lexTag(l) ==
    IF ~StartInRange(l) THEN panic(l)
    ELSE LET c == Char(l.input, l.start)
             rest == Slice(l.input, l.start, Len(l.input))
         IN  CASE c = "." -> return(next(emit(l, itemTag)), "lexClass")
               [] c = "#" -> return(next(emit(l, itemTag)), "lexId")
               [] c \in {" ", "\t"} -> return(l, "lexIndent")
               [] c = "|" -> return(ignore(l), "lexText")
               [] c \in {"\r", "\n"} -> return(l, "lexNewLine")
               [] OTHER ->
                    IF HasPrefix(rest, Comment) THEN return(l, "lexComment")
                    ELSE IF HasPrefix(rest, docTypeShort) \/ HasPrefix(rest, docTypeLong)
                         THEN return(l, "lexDocType")
                    ELSE lexTagScan(l)

lexEOF(l) ==
    LET l1 == IF l.pos > l.start THEN emit(l, itemText) ELSE l
        l2 == emit(l1, itemEOF)
    IN  return(l2, "nil")

lexDocType(l) ==
    LET tail == Slice(l.input, l.pos, Len(l.input))
        pre == IF HasPrefix(tail, "!!!") THEN Len("!!! ") ELSE Len("doctype ")
        i == Index(tail, "\n")
    IN  IF i < 0 THEN errorf(l, "unclosed doctype")
        ELSE LET l1 == [l EXCEPT !.start = @ + pre, !.pos = @ + i]
             IN  return(next(emit(l1, itemDoctype)), "lexNewLine")

lexId(l) ==
    LET r == rune(l)
        p == peek(l)
    IN  CASE r \in {"\r", "\n"} -> return(next(emit(p, itemId)), "lexNewLine")
          [] r = "(" -> return(next(emit(p, itemId)), "lexAttr")
          [] r = " " -> return(next(emit(p, itemId)), "lexText")
          [] r = "." -> return(next(emit(p, itemId)), "lexClass")
          [] r = eof -> return(emit(p, itemId), "lexEOF")
          [] OTHER -> return(next(p), "lexId")

lexClass(l) ==
    LET r == rune(l)
        p == peek(l)
    IN  CASE r \in {"\r", "\n"} -> return(next(emit(p, itemClass)), "lexNewLine")
          [] r = "(" -> return(next(emit(p, itemClass)), "lexAttr")
          [] r = " " -> return(next(emit(p, itemClass)), "lexText")
          [] r = eof -> return(emit(p, itemClass), "lexEOF")
          [] OTHER -> return(next(p), "lexClass")

\* l.unexpected(r): l.input[l.start] == r, evaluated with l.start in range
unexpected(l, r) == Char(l.input, l.start) = r

lexText(l) ==
    IF ~StartInRange(l) THEN panic(l)
    ELSE IF unexpected(l, "\n") \/ unexpected(l, "\r") THEN return(l, "lexNewLine")
    ELSE LET r == rune(l)
             p == peek(l)
         IN  CASE r \in {"\r", "\n"} -> return(next(emit(p, itemText)), "lexNewLine")
               [] r = eof -> return(emit(p, itemText), "lexEOF")
               [] OTHER -> return(next(p), "lexText")

lexComment(l) ==
    LET r == rune(l)
        p == peek(l)
    IN  CASE r \in {"\r", "\n"} -> return(next(emit(p, itemComment)), "lexNewLine")
          [] r = eof -> return(emit(p, itemComment), "lexEOF")
          [] OTHER -> return(next(p), "lexComment")

\* lexAttr, lines 388-400: the Loop. At the end of the input the default
\* case calls next(), which does not advance, and the iteration repeats
\* with the lexer unchanged: the loop has no exit.
RECURSIVE lexAttrLoop(_)
lexAttrLoop(l) ==
    IF ~Running(l) THEN l
    ELSE LET r == rune(l)
             p == peek(l)
         IN  CASE r = ")" -> p
               [] r = "," -> lexAttrLoop(ignore(next(emit(p, itemAttr))))
               [] r = eof -> [next(p) EXCEPT !.halt = "spin"]
               [] OTHER -> lexAttrLoop(next(p))

lexAttr(l) ==
    return(next(ignore(next(emit(lexAttrLoop(l), itemAttr)))), "lexText")

lexIndent(l) ==
    IF ~StartInRange(l) THEN panic(l)
    ELSE IF Char(l.input, l.start) = "\t"
         THEN return(next(emit(l, itemIdentTab)), "lexIndent")
    ELSE IF Char(l.input, l.start) = " "
         THEN return(next(emit(l, itemIdentSpace)), "lexIndent")
    ELSE return(l, "lexTag")

lexNewLine(l) ==
    IF ~StartInRange(l) THEN panic(l)
    ELSE IF Char(l.input, l.start) \in {"\r", "\n"}
         THEN return(next(emit(l, itemEndl)), "lexNewLine")
    ELSE return(l, "lexIndent")

\* l.state(l)
runState(l) ==
    CASE l.state = "lexTag" -> lexTag(l)
      [] l.state = "lexEOF" -> lexEOF(l)
      [] l.state = "lexDocType" -> lexDocType(l)
      [] l.state = "lexId" -> lexId(l)
      [] l.state = "lexClass" -> lexClass(l)
      [] l.state = "lexText" -> lexText(l)
      [] l.state = "lexComment" -> lexComment(l)
      [] l.state = "lexAttr" -> lexAttr(l)
      [] l.state = "lexIndent" -> lexIndent(l)
      [] l.state = "lexNewLine" -> lexNewLine(l)
      [] OTHER -> panic(l)

---------------------------------------------------------------------------
(* Parse nodes (node.go). The heap is a sequence of nodes; a node is named *)
(* by its index, and Nodes holds the indices of its children in order.     *)
(* val is the Tag, Text, Doctype, Attr, Id or Class byte slice.            *)

NodeText == "text"
NodeTag == "tag"
NodeAttr == "attr"
NodeDoctype == "doctype"
NodeId == "id"
NodeClass == "class"
NodeList == "List"

doctypes ==
    ("5" :> "<!DOCTYPE html>") @@
    ("default" :> "<!DOCTYPE html>") @@
    ("xml" :> "<?xml version=\"1.0\" encoding=\"utf-8\" ?>") @@
    ("transitional" :> "<!DOCTYPE html PUBLIC \"-//W3C//DTD XHTML 1.0 Transitional//EN\" \"http://www.w3.org/TR/xhtml1/DTD/xhtml1-transitional.dtd\">") @@
    ("strict" :> "<!DOCTYPE html PUBLIC \"-//W3C//DTD XHTML 1.0 Strict//EN\" \"http://www.w3.org/TR/xhtml1/DTD/xhtml1-strict.dtd\">") @@
    ("frameset" :> "<!DOCTYPE html PUBLIC \"-//W3C//DTD XHTML 1.0 Frameset//EN\" \"http://www.w3.org/TR/xhtml1/DTD/xhtml1-frameset.dtd\">") @@
    ("1.1" :> "<!DOCTYPE html PUBLIC \"-//W3C//DTD XHTML 1.1//EN\" \"http://www.w3.org/TR/xhtml11/DTD/xhtml11.dtd\">") @@
    ("basic" :> "<!DOCTYPE html PUBLIC \"-//W3C//DTD XHTML Basic 1.1//EN\" \"http://www.w3.org/TR/xhtml-basic/xhtml-basic11.dtd\">") @@
    ("mobile" :> "<!DOCTYPE html PUBLIC \"-//WAPFORUM//DTD XHTML Mobile 1.2//EN\" \"http://www.openmobilealliance.org/tech/DTD/xhtml-mobile12.dtd\">")

newNode(typ, val) == [typ |-> typ, val |-> val, nodes |-> <<>>]

newList == newNode(NodeList, "")
newTag(tag) == newNode(NodeTag, tag)
newText(text) == newNode(NodeText, text)
newDoctype(doctype) == newNode(NodeDoctype, doctype)
newAttr(attr) == newNode(NodeAttr, attr)
newId(id) == newNode(NodeId, id)
newClass(class) == newNode(NodeClass, class)

\* (l *ListNode).append and (l *TagNode).append: l.Nodes = append(l.Nodes, n)
append(h, l, n) == [h EXCEPT ![l].nodes = Append(@, n)]

\* the lookup with the last entry of the table missing
doctypeLookup_MissingKey(k) ==
    IF k \in DOMAIN doctypes /\ k # "mobile" THEN doctypes[k] ELSE ""

\* doctypes[string(t.Doctype)]: the zero value "" for a missing key
doctypeLookup(k) == IF k \in DOMAIN doctypes THEN doctypes[k] ELSE ""

\* (t *DoctypeNode).HTMLString
DoctypeHTMLString(doctype) ==
    LET defined == doctypeLookup(doctype)
    IN  IF Len(defined) # 0 THEN defined
        ELSE "<!DOCTYPE " \o doctype \o " >"

RECURSIVE HTMLString(_, _)
RECURSIVE ListBody(_, _, _)
RECURSIVE TagOpen(_, _, _, _)
RECURSIVE TagBody(_, _, _)

\* (l *ListNode).HTMLString: the loop over l.Nodes from child i on
ListBody(h, kids, i) ==
    IF i > Len(kids) THEN ""
    ELSE HTMLString(h, kids[i]) \o ListBody(h, kids, i + 1)

\* the first loop with no space written between two classes
RECURSIVE TagOpen_NoSeparator(_, _, _, _)
TagOpen_NoSeparator(h, kids, i, acc) ==
    IF i > Len(kids) THEN acc
    ELSE LET n == h[kids[i]]
             a1 == IF n.typ = NodeClass
                   THEN [acc EXCEPT !.classes = @ \o HTMLString(h, kids[i]),
                                    !.n_classes = @ + 1]
                   ELSE acc
             a2 == IF n.typ = NodeAttr
                   THEN [a1 EXCEPT !.b = @ \o " " \o HTMLString(h, kids[i])]
                   ELSE a1
             a3 == IF n.typ = NodeId
                   THEN [a2 EXCEPT !.b = @ \o " id=\"" \o HTMLString(h, kids[i]) \o "\""]
                   ELSE a2
         IN  TagOpen_NoSeparator(h, kids, i + 1, a3)

\* (l *TagNode).HTMLString, lines 150-164: the first loop from child i on,
\* with the buffers b and classes and the counter n_classes in acc
TagOpen(h, kids, i, acc) ==
    IF i > Len(kids) THEN acc
    ELSE LET n == h[kids[i]]
             a1 == IF n.typ = NodeClass
                   THEN [acc EXCEPT
                           !.classes = (IF acc.n_classes > 0 THEN @ \o " " ELSE @)
                                           \o HTMLString(h, kids[i]),
                           !.n_classes = @ + 1]
                   ELSE acc
             a2 == IF n.typ = NodeAttr
                   THEN [a1 EXCEPT !.b = @ \o " " \o HTMLString(h, kids[i])]
                   ELSE a1
             a3 == IF n.typ = NodeId
                   THEN [a2 EXCEPT !.b = @ \o " id=\"" \o HTMLString(h, kids[i]) \o "\""]
                   ELSE a2
         IN  TagOpen(h, kids, i + 1, a3)

\* the second loop without its test of the child's type
TagBody_AllChildren(h, kids, i) ==
    IF i > Len(kids) THEN ""
    ELSE HTMLString(h, kids[i]) \o TagBody(h, kids, i + 1)

\* (l *TagNode).HTMLString, lines 172-176: the second loop from child i on
TagBody(h, kids, i) ==
    IF i > Len(kids) THEN ""
    ELSE (IF h[kids[i]].typ = NodeText \/ h[kids[i]].typ = NodeTag
          THEN HTMLString(h, kids[i]) ELSE "")
         \o TagBody(h, kids, i + 1)

\* (l *TagNode).HTMLString
TagHTMLString(h, n) ==
    LET tag == h[n].val
        acc == TagOpen(h, h[n].nodes, 1,
                       [b |-> "<" \o tag, classes |-> "", n_classes |-> 0])
        b1 == IF Len(acc.classes) > 0
              THEN acc.b \o " class=\"" \o acc.classes \o "\""
              ELSE acc.b
    IN  b1 \o ">" \o TagBody(h, h[n].nodes, 1) \o "</" \o tag \o ">"

\* Node.HTMLString, by the node's type
HTMLString(h, n) ==
    CASE h[n].typ = NodeList -> ListBody(h, h[n].nodes, 1)
      [] h[n].typ = NodeTag -> TagHTMLString(h, n)
      [] h[n].typ = NodeDoctype -> DoctypeHTMLString(h[n].val)
      [] OTHER -> h[n].val

---------------------------------------------------------------------------
(* The tree builder. It pulls tokens with nextItem and keeps               *)
(*   nodes    the heap; node 1 is the root List,                           *)
(*   stack    the open Tag nodes, each with the depth it was opened at,    *)
(*   indent   the indent tokens seen on the current line,                  *)
(*   lineTag  the Tag node of the current line, 0 when it has none,        *)
(*   result   "pending", "ok" (EndOfInput) or "error" (an Error token),    *)
(*   tree     the root of the returned Tree, 0 when none is returned,      *)
(*   lines    history: the node and depth of every token placed by the     *)
(*            indentation rule, in order.                                  *)

Root == 1

newBuilder ==
    [nodes |-> <<newList>>, stack |-> <<>>, indent |-> 0, lineTag |-> 0,
     result |-> "pending", tree |-> 0, lines |-> <<>>]

\* popTo that leaves a Tag of the same depth open
RECURSIVE popTo_KeepsEqualDepth(_, _)
popTo_KeepsEqualDepth(stack, d) ==
    IF stack # <<>> /\ stack[Len(stack)].depth > d
    THEN popTo_KeepsEqualDepth(SubSeq(stack, 1, Len(stack) - 1), d)
    ELSE stack

\* pop the stack until its top entry's depth is less than d
RECURSIVE popTo(_, _)
popTo(stack, d) ==
    IF stack # <<>> /\ stack[Len(stack)].depth >= d
    THEN popTo(SubSeq(stack, 1, Len(stack) - 1), d)
    ELSE stack

\* the indentation rule: close the containers whose scope has ended, attach
\* nd to the top of the stack, or to the root List when the stack is empty;
\* a Tag is pushed
place(t, nd) ==
    LET d == t.indent
        st == popTo(t.stack, d)
        parent == IF st = <<>> THEN Root ELSE st[Len(st)].node
        n == Len(t.nodes) + 1
    IN  [t EXCEPT !.nodes = append(Append(t.nodes, nd), parent, n),
                  !.stack = IF nd.typ = NodeTag
                            THEN Append(st, [node |-> n, depth |-> d]) ELSE st,
                  !.lineTag = IF nd.typ = NodeTag THEN n ELSE @,
                  !.lines = Append(@, [node |-> n, depth |-> d])]

\* a token that follows a Tag token on its line is appended to that Tag
decorate(t, nd) ==
    IF t.lineTag = 0 THEN place(t, nd)
    ELSE [t EXCEPT !.nodes = append(Append(t.nodes, nd), t.lineTag, Len(t.nodes) + 1)]

\* one token consumed by the builder
build(t, it) ==
    CASE it.typ = itemEndl -> [t EXCEPT !.indent = 0, !.lineTag = 0]
      [] it.typ \in {itemIdentSpace, itemIdentTab} -> [t EXCEPT !.indent = @ + 1]
      [] it.typ = itemTag -> place(t, newTag(it.val))
      [] it.typ = itemDoctype -> place(t, newDoctype(it.val))
      [] it.typ = itemText -> decorate(t, newText(it.val))
      [] it.typ = itemId -> decorate(t, newId(it.val))
      [] it.typ = itemClass -> decorate(t, newClass(it.val))
      [] it.typ = itemAttr -> decorate(t, newAttr(it.val))
      [] it.typ = itemEOF -> [t EXCEPT !.result = "ok", !.tree = Root]
      [] it.typ = itemError -> [t EXCEPT !.result = "error", !.tree = 0]
      [] OTHER -> t

---------------------------------------------------------------------------
(* Templates *)

\* jadestring of testjade.go
Jadestring ==
    "// test.jade\n" \o
    "doctype 5\n" \o
    "html(lang=\"en\")\n" \o
    "  head\n" \o
    "    title pageTitle\n" \o
    "    script(type='text/javascript')\n" \o
    "      | if (foo) {\n" \o
    "      |    bar()\n" \o
    "      | }\n" \o
    "  body\n" \o
    "    h1 Jade - node template engine\n" \o
    "    #container.class\n" \o
    "      !--\n" \o
    "      if youAreUsingJade\n" \o
    "        p You are amazing\n" \o
    "      else\n" \o
    "          p Get on it!\n" \o
    "    .test\n" \o
    "    h3.r1\n" \o
    "    h6#r4\n" \o
    "    h1.dd#fd"

HelloTemplate == "doctype 5\nhtml\n  body\n    h1 Hello"
ClassesTemplate == "div.foo.bar"
AttrsTemplate == "div#main(data-x=1,data-y=2)"

Examples == {Jadestring, HelloTemplate, ClassesTemplate, AttrsTemplate}

\* the pieces short templates are made of
Alphabet == {"a", ".", "#", "(", ")", ",", " ", "\n", "|", "//", "doctype", "!!!"}

\* the longest short template, in pieces
MaxLen == 3

RECURSIVE Strings(_, _)
Strings(A, n) ==
    IF n = 0 THEN {""}
    ELSE LET S == Strings(A, n - 1) IN S \cup {s \o a : s \in S, a \in A}

\* the lines documents are made of
Lines ==
    {"a", " a", "  a", "| t", " | t", "//c", " //c", "doctype 5", " a t",
     "a#i.c(x,y) t"}

\* the longest document, in lines
MaxLines == 3

RECURSIVE Docs(_)
Docs(n) ==
    IF n = 1 THEN Lines
    ELSE LET D == Docs(n - 1) IN D \cup {d \o "\n" \o ln : d \in D, ln \in Lines}

\* the longest attribute list, in segments
MaxAttrs == 3

\* the i-th segment of an attribute list: a, aa, aaa, ...
RECURSIVE AttrSegment(_)
AttrSegment(i) == IF i = 1 THEN "a" ELSE AttrSegment(i - 1) \o "a"

\* the first k segments, separated by commas
RECURSIVE AttrSegments(_)
AttrSegments(k) ==
    IF k = 1 THEN AttrSegment(1) ELSE AttrSegments(k - 1) \o "," \o AttrSegment(k)

\* what follows the closing parenthesis
AttrTails == {"", " t", "\nq"}

\* a tag name, a parenthesized list of k segments, and the rest
AttrListTemplate(k, rest) == "p(" \o AttrSegments(k) \o ")" \o rest

AttrLists == {AttrListTemplate(k, rest) : k \in 1..MaxAttrs, rest \in AttrTails}

\* a doctype line ended by a newline, as the first or as a later line
DoctypeMarkers == {docTypeLong, docTypeShort}
DoctypeValues == {"5", "strict"}
DoctypeBefore == {"", "a\n"}
DoctypeAfter == {"", "a"}

DoctypeTemplate(before, marker, v, after) ==
    before \o marker \o " " \o v \o "\n" \o after

DoctypeTemplates ==
    {DoctypeTemplate(before, marker, v, after) :
        before \in DoctypeBefore, marker \in DoctypeMarkers,
        v \in DoctypeValues, after \in DoctypeAfter}

\* lines whose names and texts are single letters, each introduced by a
\* delimiter, as the first or as a later line
DelimiterLines ==
    {"a t", "a#i t", "a.c t", ".c", "#i", "a(x)", "a(x) t", "a#i(x) t",
     "a.c(x) t", "| t"}
DelimiterBefore == {"", "b\n"}
DelimiterAfter == {"", "\nb"}

DelimiterTemplates ==
    {before \o ln \o after :
        before \in DelimiterBefore, ln \in DelimiterLines, after \in DelimiterAfter}

Templates ==
    Examples \cup Strings(Alphabet, MaxLen) \cup Docs(MaxLines) \cup AttrLists
    \cup DoctypeTemplates \cup DelimiterTemplates

---------------------------------------------------------------------------
(* Parse: the builder drives the lexer through nextItem. One step of       *)
(* nextItem's loop either receives a buffered item, which the builder then *)
(* consumes, or runs the current state function.                           *)

Init ==
    /\ \E input \in Templates : lx = lex(input)
    /\ tb = newBuilder
    /\ toks = <<>>

Pulling == tb.result = "pending" /\ Running(lx)

\* nextItem, case item := <-l.items
Receive ==
    /\ Pulling
    /\ lx.items # <<>>
    /\ lx' = [lx EXCEPT !.items = Tail(@)]
    /\ tb' = build(tb, Head(lx.items))
    /\ toks' = Append(toks, Head(lx.items))

\* nextItem, default: l.state = l.state(l)
Enter(fn) == Pulling /\ lx.items = <<>> /\ lx.state = fn

LexTag == Enter("lexTag") /\ lx' = lexTag(lx) /\ UNCHANGED <<tb, toks>>
LexEOF == Enter("lexEOF") /\ lx' = lexEOF(lx) /\ UNCHANGED <<tb, toks>>
LexDocType == Enter("lexDocType") /\ lx' = lexDocType(lx) /\ UNCHANGED <<tb, toks>>
LexId == Enter("lexId") /\ lx' = lexId(lx) /\ UNCHANGED <<tb, toks>>
LexClass == Enter("lexClass") /\ lx' = lexClass(lx) /\ UNCHANGED <<tb, toks>>
LexText == Enter("lexText") /\ lx' = lexText(lx) /\ UNCHANGED <<tb, toks>>
LexComment == Enter("lexComment") /\ lx' = lexComment(lx) /\ UNCHANGED <<tb, toks>>
LexAttr == Enter("lexAttr") /\ lx' = lexAttr(lx) /\ UNCHANGED <<tb, toks>>
LexIndent == Enter("lexIndent") /\ lx' = lexIndent(lx) /\ UNCHANGED <<tb, toks>>
LexNewLine == Enter("lexNewLine") /\ lx' = lexNewLine(lx) /\ UNCHANGED <<tb, toks>>

Next ==
    \/ Receive
    \/ LexTag
    \/ LexEOF
    \/ LexDocType
    \/ LexId
    \/ LexClass
    \/ LexText
    \/ LexComment
    \/ LexAttr
    \/ LexIndent
    \/ LexNewLine

Spec == Init /\ [][Next]_vars

\* nextItem's loop, one step: a buffered item goes to the builder, else the
\* state function runs
stepParse(s) ==
    IF s.lx.items # <<>>
    THEN [lx |-> [s.lx EXCEPT !.items = Tail(@)], tb |-> build(s.tb, Head(s.lx.items))]
    ELSE [lx |-> runState(s.lx), tb |-> s.tb]

RECURSIVE runParse(_)
runParse(s) ==
    IF s.tb.result # "pending" \/ ~Running(s.lx) THEN s
    ELSE runParse(stepParse(s))

\* Parse(text): the lexer and the builder when the run stops
Parse(text) == runParse([lx |-> lex(text), tb |-> newBuilder])

---------------------------------------------------------------------------
(* Observations of a run *)

\* Parse has returned, or the run has been cut short inside the scanner
Stopped == tb.result # "pending" \/ ~Running(lx)

\* no step of the run is left to take: it has stopped, or the buffer is
\* empty and there is no state function to run
Quiescent == Stopped \/ (lx.items = <<>> /\ lx.state = "nil")

\* HTMLString of the returned Tree's root
Rendered == HTMLString(tb.nodes, tb.tree)

Range(f) == {f[i] : i \in DOMAIN f}

TokensOf(typ) == {i \in DOMAIN toks : toks[i].typ = typ}

\* the parent of node n in heap h
ParentOf(h, n) == CHOOSE p \in DOMAIN h : n \in Range(h[p].nodes)

\* the tokens the builder makes a node of
NodeTokens == {itemTag, itemDoctype, itemText, itemId, itemClass, itemAttr}

\* the node made of token i: nodes are created in token order after the root
NodeOfToken(i) == 1 + Cardinality({k \in 1..i : toks[k].typ \in NodeTokens})

\* the Tag token before token i on the same line, 0 when there is none
LineTagToken(i) ==
    LET js == {j \in 1..(i - 1) :
                 /\ toks[j].typ = itemTag
                 /\ \A k \in (j + 1)..(i - 1) : toks[k].typ # itemEndl}
    IN  IF js = {} THEN 0 ELSE CHOOSE j \in js : \A k \in js : k <= j

---------------------------------------------------------------------------
(* C1 *)

\* C1: the four-line template (doctype 5 / html / body indented by two
\* spaces / h1 Hello indented by four) parses successfully and its root
\* renders exactly <!DOCTYPE html><html><body><h1>Hello</h1></body></html>;
\* the indent and newline tokens add no node.
C1_HelloRenders ==
    (lx.input = HelloTemplate /\ Stopped) =>
        /\ tb.result = "ok"
        /\ tb.tree = Root
        /\ Rendered = "<!DOCTYPE html><html><body><h1>Hello</h1></body></html>"
        /\ Len(tb.nodes) = 6

C1_Witness ==
    /\ lx.input = HelloTemplate
    /\ tb.result = "ok"
    /\ Cardinality(TokensOf(itemIdentSpace)) = 6
    /\ Cardinality(TokensOf(itemEndl)) = 3

---------------------------------------------------------------------------
(* C2 *)

\* C2: for every template, pulling tokens reaches an EndOfInput or Error
\* token: the run never stops (a state function that does not return, a
\* send that blocks on the full buffer, a panic) before the builder has
\* received a terminal token.
C2_ReachesTerminalToken == Quiescent => tb.result # "pending"

---------------------------------------------------------------------------
(* C3 *)

\* the text after the last newline
LastLine(s) ==
    LET nl == {i \in 1..Len(s) : Char(s, i - 1) = "\n"}
    IN  IF nl = {} THEN s
        ELSE Slice(s, CHOOSE i \in nl : \A j \in nl : j <= i, Len(s))

\* the line without its leading spaces and tabs
StripIndent(s) ==
    LET k == CHOOSE i \in 0..Len(s) :
                 /\ \A j \in 0..(i - 1) : Char(s, j) \in {" ", "\t"}
                 /\ i = Len(s) \/ Char(s, i) \notin {" ", "\t"}
    IN  Slice(s, k, Len(s))

BeginsDoctype(ln) == HasPrefix(ln, docTypeLong) \/ HasPrefix(ln, docTypeShort)

\* a line that begins with a doctype marker and has no newline after it
UnclosedDoctype(s) == BeginsDoctype(StripIndent(LastLine(s)))

\* C3: when a line beginning with a doctype marker has no newline before
\* the end of the input, the token sequence ends with its only Error token,
\* "unclosed doctype", and Parse fails and returns no tree.
C3_UnclosedDoctypeFails ==
    (UnclosedDoctype(lx.input) /\ Quiescent) =>
        /\ tb.result = "error"
        /\ tb.tree = 0
        /\ toks # <<>>
        /\ toks[Len(toks)] = item(itemError, "unclosed doctype")
        /\ Cardinality(TokensOf(itemError)) = 1

---------------------------------------------------------------------------
(* C4 *)

IndentTokens == {itemIdentSpace, itemIdentTab}

\* the indentation depth of token i's line: the indent tokens before it
\* since the last newline token
DepthOfToken(i) ==
    Cardinality({k \in 1..(i - 1) :
                   /\ toks[k].typ \in IndentTokens
                   /\ \A m \in k..(i - 1) : toks[m].typ # itemEndl})

\* the tokens that start a Tag, Doctype or Text line
LineTokens ==
    {i \in DOMAIN toks :
        \/ toks[i].typ \in {itemTag, itemDoctype}
        \/ toks[i].typ = itemText /\ LineTagToken(i) = 0}

MaxOf(S) == CHOOSE x \in S : \A y \in S : y <= x

\* a line at depth d closes every open Tag of depth d or more
ClosesDeeper ==
    LineTokens # {} =>
        LET last == MaxOf(LineTokens)
        IN  \A k \in DOMAIN tb.stack :
               \/ tb.stack[k].node = NodeOfToken(last)
               \/ tb.stack[k].depth < DepthOfToken(last)

\* C4 as stated: a Tag whose line has depth d is a child of the nearest
\* preceding Tag whose line has depth less than d, or of the root List if
\* there is none, and a line at depth d closes every open Tag of depth d or
\* more.
C4_NearestShallowerTag ==
    tb.result = "ok" =>
    /\ \A i \in TokensOf(itemTag) :
          LET js == {j \in TokensOf(itemTag) : j < i /\ DepthOfToken(j) < DepthOfToken(i)}
          IN  ParentOf(tb.nodes, NodeOfToken(i)) =
                  IF js = {} THEN Root ELSE NodeOfToken(MaxOf(js))
    /\ ClosesDeeper

\* the Tags before token i that are still open at it: no Tag, Doctype or
\* Text line in between is at their depth or shallower
OpenTagsAt(i) ==
    {j \in TokensOf(itemTag) :
        /\ j < i
        /\ \A k \in LineTokens : (j < k /\ k < i) => DepthOfToken(k) > DepthOfToken(j)}

\* C4, amended: a Tag whose line has depth d is a child of the nearest
\* preceding Tag that is still open and whose line has depth less than d,
\* or of the root List if there is none; a Tag, Doctype or Text line at
\* depth d closes every open Tag of depth d or more.
C4_NearestOpenShallowerTag ==
    tb.result = "ok" =>
    /\ \A i \in TokensOf(itemTag) :
          LET js == {j \in OpenTagsAt(i) : DepthOfToken(j) < DepthOfToken(i)}
          IN  ParentOf(tb.nodes, NodeOfToken(i)) =
                  IF js = {} THEN Root ELSE NodeOfToken(MaxOf(js))
    /\ ClosesDeeper

\* a Tag nested under an earlier Tag after a deeper Tag has been closed
C4_Witness ==
    /\ tb.result = "ok"
    /\ \E i \in TokensOf(itemTag) :
          /\ ParentOf(tb.nodes, NodeOfToken(i)) # Root
          /\ \E j \in TokensOf(itemTag) : j < i /\ DepthOfToken(j) > DepthOfToken(i)
          /\ \E k \in LineTokens : k < i /\ toks[k].typ = itemText

---------------------------------------------------------------------------
(* C5 *)

Decorations == {NodeAttr, NodeId, NodeClass}

\* C5: no Attr, Id or Class node is a child of a List node; every Attr, Id
\* and Class token has a Tag token before it on its line, and its node is
\* a child of the Tag node made of that token.
C5_DecorationsBelongToTheirTag ==
    /\ \A n \in DOMAIN tb.nodes :
          tb.nodes[n].typ = NodeList =>
              \A c \in Range(tb.nodes[n].nodes) : tb.nodes[c].typ \notin Decorations
    /\ \A i \in DOMAIN toks :
          toks[i].typ \in {itemAttr, itemId, itemClass} =>
              /\ LineTagToken(i) # 0
              /\ tb.nodes[NodeOfToken(i)].typ = toks[i].typ
              /\ tb.nodes[NodeOfToken(LineTagToken(i))].typ = NodeTag
              /\ NodeOfToken(i) \in Range(tb.nodes[NodeOfToken(LineTagToken(i))].nodes)

C5_Witness ==
    /\ tb.result = "ok"
    /\ TokensOf(itemAttr) # {}
    /\ TokensOf(itemId) # {}
    /\ TokensOf(itemClass) # {}
    /\ \E i \in TokensOf(itemClass) : toks[LineTagToken(i)].val = "."

---------------------------------------------------------------------------
(* C6 *)

\* C6: div.foo.bar tokenizes to Tag div, Class foo, Class bar and renders
\* <div class="foo bar"></div>: chained class shorthands are separate Class
\* tokens, a "." ending the class being scanned.
C6_ChainedClasses ==
    (lx.input = ClassesTemplate /\ Stopped) =>
        /\ toks = <<item(itemTag, "div"), item(itemClass, "foo"),
                    item(itemClass, "bar"), item(itemEOF, "")>>
        /\ tb.result = "ok"
        /\ Rendered = "<div class=\"foo bar\"></div>"

---------------------------------------------------------------------------
(* C7 *)

\* C7: div#main(data-x=1,data-y=2) parses successfully and renders exactly
\* <div data-x=1 data-y=2 id="main"></div>.
C7_IdAndAttributes ==
    (lx.input = AttrsTemplate /\ Stopped) =>
        /\ tb.result = "ok"
        /\ Rendered = "<div data-x=1 data-y=2 id=\"main\"></div>"

---------------------------------------------------------------------------
(* C10 *)

\* the lines of s, split at "\n"
RECURSIVE SplitLines(_)
SplitLines(s) ==
    LET i == Index(s, "\n")
    IN  IF i < 0 THEN <<s>>
        ELSE <<Slice(s, 0, i)>> \o SplitLines(Slice(s, i + 1, Len(s)))

RECURSIVE JoinLines(_)
JoinLines(lns) ==
    IF lns = <<>> THEN ""
    ELSE IF Len(lns) = 1 THEN lns[1]
    ELSE lns[1] \o "\n" \o JoinLines(Tail(lns))

\* a line whose first characters after its indentation are //
IsCommentLine(ln) == HasPrefix(StripIndent(ln), Comment)

IsOtherLine(ln) == ~IsCommentLine(ln)

CommentLines(s) == SelectSeq(SplitLines(s), IsCommentLine)

\* the template with its comment lines absent
WithoutCommentLines(s) == JoinLines(SelectSeq(SplitLines(s), IsOtherLine))

\* C10: every comment line is one Comment token covering the line from the
\* // to its end, and the tree built and its rendering are those of the
\* template without its comment lines (stated for the templates that
\* parse both with and without them).
C10_CommentLinesAreAbsent ==
    LET without == Parse(WithoutCommentLines(lx.input))
    IN  (/\ tb.result = "ok"
         /\ CommentLines(lx.input) # <<>>
         /\ without.tb.result = "ok") =>
            /\ Cardinality(TokensOf(itemComment)) = Len(CommentLines(lx.input))
            /\ \A i \in TokensOf(itemComment) : IsCommentLine(toks[i].val)
            /\ without.tb.nodes = tb.nodes
            /\ HTMLString(without.tb.nodes, without.tb.tree) = Rendered

---------------------------------------------------------------------------
(* Trees made with the node constructors alone: a new node of any type is  *)
(* appended to any List or Tag node of the heap. No template is scanned.   *)

TagNames == {"p"}
Texts == {"t"}
Attrs == {"x=1"}
Ids == {"i"}
Classes == {"a", "b", ""}
Doctypes ==
    {"5", "default", "xml", "transitional", "strict", "frameset", "1.1",
     "basic", "mobile", "unknown"}

\* the largest heap, in nodes
MaxNodes == 5

InitNodes ==
    /\ lx = lex("")
    /\ tb = newBuilder
    /\ toks = <<>>

\* n := newXxx(val); l.append(n), for a List or Tag node l
AppendNew(nd) ==
    /\ Len(tb.nodes) < MaxNodes
    /\ \E l \in DOMAIN tb.nodes :
          /\ tb.nodes[l].typ \in {NodeList, NodeTag}
          /\ tb' = [tb EXCEPT !.nodes = append(Append(tb.nodes, nd), l, Len(tb.nodes) + 1)]
    /\ UNCHANGED <<lx, toks>>

AppendTag == \E v \in TagNames : AppendNew(newTag(v))
AppendText == \E v \in Texts : AppendNew(newText(v))
AppendDoctype == \E v \in Doctypes : AppendNew(newDoctype(v))
AppendAttr == \E v \in Attrs : AppendNew(newAttr(v))
AppendId == \E v \in Ids : AppendNew(newId(v))
AppendClass == \E v \in Classes : AppendNew(newClass(v))

NextNodes ==
    \/ AppendTag
    \/ AppendText
    \/ AppendDoctype
    \/ AppendAttr
    \/ AppendId
    \/ AppendClass

SpecNodes == InitNodes /\ [][NextNodes]_vars

---------------------------------------------------------------------------
(* C8 *)

NodesOf(typ) == {n \in DOMAIN tb.nodes : tb.nodes[n].typ = typ}

\* the children of n whose type is in T, in child order
KidsOf(h, n, T) ==
    LET Wanted(c) == h[c].typ \in T
    IN  SelectSeq(h[n].nodes, Wanted)

\* the payloads of the nodes ns, in order
Payloads(h, ns) == [k \in DOMAIN ns |-> h[ns[k]].val]

RECURSIVE JoinWith(_, _)
JoinWith(strs, sep) ==
    IF strs = <<>> THEN ""
    ELSE IF Len(strs) = 1 THEN strs[1]
    ELSE strs[1] \o sep \o JoinWith(Tail(strs), sep)

\* the class value of Tag n: its Class payloads joined by single spaces
ClassValue(h, n) == JoinWith(Payloads(h, KidsOf(h, n, {NodeClass})), " ")

\* the Attr and Id fragments of Tag n, in child order
RECURSIVE Fragments(_, _)
Fragments(h, ns) ==
    IF ns = <<>> THEN ""
    ELSE (IF h[ns[1]].typ = NodeAttr THEN " " \o h[ns[1]].val
          ELSE " id=\"" \o h[ns[1]].val \o "\"")
         \o Fragments(h, Tail(ns))

\* the renders of the nodes ns, concatenated
RECURSIVE Renders(_, _)
Renders(h, ns) ==
    IF ns = <<>> THEN "" ELSE HTMLString(h, ns[1]) \o Renders(h, Tail(ns))

\* <name, the Attr and Id fragments, the class attribute, >, the body, </name>
TagShape(h, n, classAttr) ==
    "<" \o h[n].val \o Fragments(h, KidsOf(h, n, {NodeAttr, NodeId})) \o classAttr
        \o ">" \o Renders(h, KidsOf(h, n, {NodeText, NodeTag}))
        \o "</" \o h[n].val \o ">"

ClassAttr(h, n) == " class=\"" \o ClassValue(h, n) \o "\""

\* C8 as stated: the opening tag of every Tag with a Class child has one
\* class attribute, the Class payloads joined by single spaces in child
\* order without deduplication, after every Attr and Id fragment; a Tag
\* with no Class child has none.
C8_ClassAttribute ==
    \A n \in NodesOf(NodeTag) :
        HTMLString(tb.nodes, n) =
            TagShape(tb.nodes, n,
                     IF KidsOf(tb.nodes, n, {NodeClass}) # <<>>
                     THEN ClassAttr(tb.nodes, n) ELSE "")

\* C8, amended: the class attribute is written when the joined value is not
\* empty; a Tag with no Class child, or whose only Class child has an empty
\* payload, has none.
C8_NonEmptyClassAttribute ==
    \A n \in NodesOf(NodeTag) :
        HTMLString(tb.nodes, n) =
            TagShape(tb.nodes, n,
                     IF ClassValue(tb.nodes, n) # ""
                     THEN ClassAttr(tb.nodes, n) ELSE "")

\* a Tag with the Class children a, b, a
C8_Witness ==
    \E n \in NodesOf(NodeTag) :
        /\ Payloads(tb.nodes, KidsOf(tb.nodes, n, {NodeClass})) = <<"a", "b", "a">>
        /\ HTMLString(tb.nodes, n) = "<p class=\"a b a\"></p>"

---------------------------------------------------------------------------
(* C9 *)

NineKeys ==
    {"5", "default", "xml", "transitional", "strict", "frameset", "1.1",
     "basic", "mobile"}

\* C9: a Doctype node renders to the table string of its payload when the
\* payload is one of the nine keys (<!DOCTYPE html> for 5), and to
\* <!DOCTYPE payload > for every other payload.
C9_DoctypeRender ==
    /\ DOMAIN doctypes = NineKeys
    /\ \A n \in NodesOf(NodeDoctype) :
          LET payload == tb.nodes[n].val
              html == HTMLString(tb.nodes, n)
          IN  /\ payload \in NineKeys => html = doctypes[payload]
              /\ payload \in NineKeys => html # "<!DOCTYPE " \o payload \o " >"
              /\ payload = "5" => html = "<!DOCTYPE html>"
              /\ payload \notin NineKeys => html = "<!DOCTYPE " \o payload \o " >"
              /\ payload = "unknown" => html = "<!DOCTYPE unknown >"

\* Doctype nodes with a table payload and with another payload
C9_Witness ==
    /\ \E n \in NodesOf(NodeDoctype) : tb.nodes[n].val = "5"
    /\ \E n \in NodesOf(NodeDoctype) : tb.nodes[n].val = "mobile"
    /\ \E n \in NodesOf(NodeDoctype) : tb.nodes[n].val = "unknown"

---------------------------------------------------------------------------
(* A consumer that keeps calling nextItem after the terminal token, as a   *)
(* loop without TestJade's break would.                                    *)

\* nextItem after the EndOfInput or Error token has been returned: the
\* channel is empty, so the default case calls l.state(l), and l.state is
\* the nil that lexEOF and errorf returned: a nil function call, a panic
PullPastEnd ==
    /\ tb.result # "pending"
    /\ Running(lx)
    /\ lx.items = <<>>
    /\ lx.state = "nil"
    /\ lx' = panic(lx)
    /\ UNCHANGED <<tb, toks>>

NextPull ==
    \/ Next
    \/ PullPastEnd

SpecPull == Init /\ [][NextPull]_vars

---------------------------------------------------------------------------
(* C11 *)

\* C11: once nextItem has returned an EndOfInput or an Error token, a
\* further pull yields no token and leaves the scanner as it was.
C11_TerminalIsAbsorbing ==
    [][tb.result # "pending" => (lx' = lx /\ toks' = toks)]_vars

---------------------------------------------------------------------------
(* Copy. A []byte payload is a reference to a backing array, so the memory *)
(* of this specification keeps the arrays apart from the node cells:       *)
(*   nodes   the node cells; a cell's val is the address of its payload's  *)
(*           backing array in bufs, 0 for a List, which has no payload,    *)
(*   bufs    the backing arrays, each a string of bytes.                   *)

\* []byte(s), append([]byte{}, b...): a new backing array holding s
newBytes(m, s) == [m EXCEPT !.bufs = Append(@, s)]

\* &XxxNode{NodeType: typ, Xxx: <the array allocated last>}
newCell(m, typ) ==
    [m EXCEPT !.nodes = Append(@, newNode(typ, IF typ = NodeList THEN 0 ELSE Len(m.bufs)))]

\* the bytes of node n's payload
Bytes(m, n) == IF m.nodes[n].val = 0 THEN "" ELSE m.bufs[m.nodes[n].val]

\* the heap as the renderers read it: every cell with its payload's bytes
View(m) == [n \in DOMAIN m.nodes |-> [m.nodes[n] EXCEPT !.val = Bytes(m, n)]]

\* the copy loop that appends the children themselves, not their copies
CopyNodes_Shallow(m, kids, i, dst) ==
    [m EXCEPT !.nodes[dst].nodes = @ \o SubSeq(kids, i, Len(kids))]

RECURSIVE Copy(_, _)
RECURSIVE CopyNodes(_, _, _, _)

\* CopyList, CopyTag: for _, elem := range l.Nodes { n.append(elem.Copy()) },
\* from child i on, n being the cell dst
CopyNodes(m, kids, i, dst) ==
    IF i > Len(kids) THEN m
    ELSE LET c == Copy(m, kids[i])
         IN  CopyNodes([c.m EXCEPT !.nodes = append(@, dst, c.n)], kids, i + 1, dst)

\* n.Copy() on a node n that is not nil: the memory after the call and the
\* address it returns
Copy(m, n) ==
    LET typ == m.nodes[n].typ
        m1 == IF typ = NodeList THEN newCell(m, NodeList)
              ELSE newCell(newBytes(m, Bytes(m, n)), typ)
        dst == Len(m1.nodes)
    IN  IF typ \in {NodeList, NodeTag}
        THEN [m |-> CopyNodes(m1, m.nodes[n].nodes, 1, dst), n |-> dst]
        ELSE [m |-> m1, n |-> dst]

RECURSIVE Reach(_, _)
RECURSIVE ReachAll(_, _, _)

\* the cells reachable from the children kids[i..]
ReachAll(m, kids, i) ==
    IF i > Len(kids) THEN {} ELSE Reach(m, kids[i]) \cup ReachAll(m, kids, i + 1)

\* the cells reachable from node n
Reach(m, n) == IF n = 0 THEN {} ELSE {n} \cup ReachAll(m, m.nodes[n].nodes, 1)

\* the backing arrays reachable from node n
ReachBufs(m, n) == {m.nodes[k].val : k \in Reach(m, n)} \ {0}

RECURSIVE Struct(_, _)
RECURSIVE StructAll(_, _, _)

StructAll(m, kids, i) ==
    IF i > Len(kids) THEN <<>> ELSE <<Struct(m, kids[i])>> \o StructAll(m, kids, i + 1)

\* the tree under node n as a value: kind, payload bytes, children in order
Struct(m, n) ==
    [typ |-> m.nodes[n].typ, val |-> Bytes(m, n),
     nodes |-> StructAll(m, m.nodes[n].nodes, 1)]

NodeTypes == {NodeText, NodeTag, NodeAttr, NodeDoctype, NodeId, NodeClass, NodeList}
CopyPayloads == {"a", "b"}

\* the largest tree that is copied, in nodes, and the mutations after the copy
MaxCopyNodes == 3
MaxMutations == 2

InitCopy ==
    /\ lx = lex("")
    /\ toks = <<>>
    /\ tb = [nodes |-> <<newNode(NodeList, 0)>>, bufs |-> <<>>, orig |-> 0, copy |-> 0,
             snap |-> <<>>, html |-> "", touched |-> {}, muts |-> 0]

\* n := newXxx(v); l.append(n), before the copy is made
CopyBuild ==
    /\ tb.copy = 0
    /\ Len(tb.nodes) < MaxCopyNodes
    /\ \E typ \in NodeTypes, v \in CopyPayloads, l \in DOMAIN tb.nodes :
          /\ tb.nodes[l].typ \in {NodeList, NodeTag}
          /\ typ = NodeList => v = "a"
          /\ LET m1 == newCell(IF typ = NodeList THEN tb ELSE newBytes(tb, v), typ)
             IN  tb' = [m1 EXCEPT !.nodes = append(@, l, Len(m1.nodes))]
    /\ UNCHANGED <<lx, toks>>

\* c := n.Copy(), for any node n
CopyNode ==
    /\ tb.copy = 0
    /\ \E n \in DOMAIN tb.nodes :
          LET c == Copy(tb, n)
          IN  tb' = [c.m EXCEPT !.orig = n, !.copy = c.n, !.snap = Struct(tb, n),
                              !.html = HTMLString(View(tb), n)]
    /\ UNCHANGED <<lx, toks>>

Sides == {"orig", "copy"}
SideRoot(side) == IF side = "orig" THEN tb.orig ELSE tb.copy

\* l.append(newText("x")) on a List or Tag node l reachable from one side
MutateAppend ==
    /\ tb.copy # 0
    /\ tb.muts < MaxMutations
    /\ \E side \in Sides : \E l \in Reach(tb, SideRoot(side)) :
          /\ tb.nodes[l].typ \in {NodeList, NodeTag}
          /\ LET m1 == newCell(newBytes(tb, "x"), NodeText)
             IN  tb' = [m1 EXCEPT !.nodes = append(@, l, Len(m1.nodes)),
                                  !.touched = @ \cup {side}, !.muts = @ + 1]
    /\ UNCHANGED <<lx, toks>>

\* payload[0] = 'z' on a payload reachable from one side
MutateBytes ==
    /\ tb.copy # 0
    /\ tb.muts < MaxMutations
    /\ \E side \in Sides : \E a \in ReachBufs(tb, SideRoot(side)) :
          /\ Len(tb.bufs[a]) > 0
          /\ tb' = [tb EXCEPT !.bufs[a] = "z" \o Slice(@, 1, Len(@)),
                              !.touched = @ \cup {side}, !.muts = @ + 1]
    /\ UNCHANGED <<lx, toks>>

NextCopy ==
    \/ CopyBuild
    \/ CopyNode
    \/ MutateAppend
    \/ MutateBytes

SpecCopy == InitCopy /\ [][NextCopy]_vars

---------------------------------------------------------------------------
(* C12 *)

\* C12: Copy(n) returns a node of the same kind that renders as n does and
\* shares no node cell and no backing array with it; whatever is appended
\* to or overwritten in the copy, the original's structure, payloads and
\* rendering stay as they were when the copy was made, and likewise the
\* copy's when the original is mutated.
C12_CopyIsIndependent ==
    tb.copy # 0 =>
        /\ Reach(tb, tb.orig) \cap Reach(tb, tb.copy) = {}
        /\ ReachBufs(tb, tb.orig) \cap ReachBufs(tb, tb.copy) = {}
        /\ tb.touched = {} =>
              /\ tb.nodes[tb.copy].typ = tb.nodes[tb.orig].typ
              /\ HTMLString(View(tb), tb.copy) = HTMLString(View(tb), tb.orig)
        /\ \A side \in Sides \ tb.touched :
              /\ Struct(tb, SideRoot(side)) = tb.snap
              /\ HTMLString(View(tb), SideRoot(side)) = tb.html

\* a Tag with a child was copied, then a payload of the copy was overwritten
\* and a child appended to it; the original is the side left alone
C12_Witness ==
    /\ tb.copy # 0
    /\ tb.nodes[tb.orig].typ = NodeTag
    /\ tb.nodes[tb.orig].nodes # <<>>
    /\ tb.touched = {"copy"}
    /\ \E a \in ReachBufs(tb, tb.copy) : Char(tb.bufs[a], 0) = "z"
    /\ Cardinality(Reach(tb, tb.copy)) > Cardinality(Reach(tb, tb.orig))

---------------------------------------------------------------------------
(* Rendering a tree, more than once. The tree is made with the node        *)
(* constructors; html is what the last call of HTMLString on the root      *)
(* returned and calls counts the calls made.                               *)

MaxRenderNodes == 5
MaxRenders == 2

InitRender ==
    /\ lx = lex("")
    /\ toks = <<>>
    /\ tb = [nodes |-> <<newList>>, html |-> "", calls |-> 0]

\* the tag names, a void element among them, and the doctypes of the
\* trees that are rendered
RenderTagNames == {"p", "br"}
RenderDoctypes == {"5", "unknown"}

NewNodes ==
    {newTag(v) : v \in RenderTagNames} \cup {newText(v) : v \in Texts}
    \cup {newDoctype(v) : v \in RenderDoctypes} \cup {newAttr(v) : v \in Attrs}
    \cup {newId(v) : v \in Ids} \cup {newClass("a")}

\* n := newXxx(val); l.append(n), before the first rendering
RenderBuild ==
    /\ tb.calls = 0
    /\ Len(tb.nodes) < MaxRenderNodes
    /\ \E nd \in NewNodes, l \in DOMAIN tb.nodes :
          /\ tb.nodes[l].typ \in {NodeList, NodeTag}
          /\ tb' = [tb EXCEPT !.nodes = append(Append(tb.nodes, nd), l, Len(tb.nodes) + 1)]
    /\ UNCHANGED <<lx, toks>>

(* What a rendering does to the memory. The renderers are followed       *)
(* statement by statement on the memory of nodes and byte arrays (nodes,   *)
(* bufs): a bytes.Buffer is one more array of bufs, fmt.Fprint writes to   *)
(* the array at the buffer's address, and a payload is read from the array *)
(* at the address the node holds. Each operator gives the memory after the *)
(* call (m) and, for HTMLString, the string returned (s).                  *)

\* the constructors' memory for heap h: newXxx(val) gives every node an
\* array of its own ([]byte(val)), here at the node's own address
Load(h) ==
    [nodes |-> [n \in DOMAIN h |->
                  [h[n] EXCEPT !.val = IF h[n].typ = NodeList THEN 0 ELSE n]],
     bufs |-> [n \in DOMAIN h |-> h[n].val]]

\* b := new(bytes.Buffer); the buffer is the array allocated last
newBuffer(m) == [m EXCEPT !.bufs = Append(@, "")]

\* fmt.Fprint(b, s), fmt.Fprintf(b, format, ...) with s the formatted text
Fprint(m, b, s) == [m EXCEPT !.bufs[b] = @ \o s]

\* a DoctypeNode.HTMLString that keeps the string it found in t.Doctype
DoctypeHTMLStringIn_CachesResult(m, n) ==
    LET s == DoctypeHTMLString(Bytes(m, n))
    IN  [m |-> [m EXCEPT !.bufs[m.nodes[n].val] = s], s |-> s]

\* (t *DoctypeNode).HTMLString
DoctypeHTMLStringIn(m, n) == [m |-> m, s |-> DoctypeHTMLString(Bytes(m, n))]

RECURSIVE HTMLStringIn(_, _)
RECURSIVE ListBodyIn(_, _, _, _)
RECURSIVE TagOpenIn(_, _, _, _, _, _)
RECURSIVE TagBodyIn(_, _, _, _)

\* (l *ListNode).HTMLString, the loop from child i on, writing to buffer b
ListBodyIn(m, kids, i, b) ==
    IF i > Len(kids) THEN m
    ELSE LET r == HTMLStringIn(m, kids[i])
         IN  ListBodyIn(Fprint(r.m, b, r.s), kids, i + 1, b)

\* (l *ListNode).HTMLString
ListHTMLStringIn(m, n) ==
    LET m1 == newBuffer(m)
        b == Len(m1.bufs)
        m2 == ListBodyIn(m1, m1.nodes[n].nodes, 1, b)
    IN  [m |-> m2, s |-> m2.bufs[b]]

\* (l *TagNode).HTMLString, the first loop from child i on, writing to the
\* buffers b and classes, with n_classes classes written so far
TagOpenIn(m, kids, i, b, classes, n_classes) ==
    IF i > Len(kids) THEN m
    ELSE LET typ == m.nodes[kids[i]].typ
             m1 == IF typ = NodeClass /\ n_classes > 0
                   THEN Fprint(m, classes, " ") ELSE m
             r == HTMLStringIn(m1, kids[i])
             m2 == CASE typ = NodeClass -> Fprint(r.m, classes, r.s)
                     [] typ = NodeAttr -> Fprint(r.m, b, " " \o r.s)
                     [] typ = NodeId -> Fprint(r.m, b, " id=\"" \o r.s \o "\"")
                     [] OTHER -> m
         IN  TagOpenIn(m2, kids, i + 1, b, classes,
                       IF typ = NodeClass THEN n_classes + 1 ELSE n_classes)

\* (l *TagNode).HTMLString, the second loop from child i on
TagBodyIn(m, kids, i, b) ==
    IF i > Len(kids) THEN m
    ELSE IF m.nodes[kids[i]].typ = NodeText \/ m.nodes[kids[i]].typ = NodeTag
    THEN LET r == HTMLStringIn(m, kids[i])
         IN  TagBodyIn(Fprint(r.m, b, r.s), kids, i + 1, b)
    ELSE TagBodyIn(m, kids, i + 1, b)

\* (l *TagNode).HTMLString
TagHTMLStringIn(m, n) ==
    LET m1 == newBuffer(m)
        b == Len(m1.bufs)
        m2 == newBuffer(m1)
        classes == Len(m2.bufs)
        m3 == Fprint(m2, b, "<" \o Bytes(m2, n))
        m4 == TagOpenIn(m3, m3.nodes[n].nodes, 1, b, classes, 0)
        m5 == IF Len(m4.bufs[classes]) > 0
              THEN Fprint(m4, b, " class=\"" \o m4.bufs[classes] \o "\"")
              ELSE m4
        m6 == Fprint(m5, b, ">")
        m7 == TagBodyIn(m6, m6.nodes[n].nodes, 1, b)
        m8 == Fprint(m7, b, "</" \o Bytes(m7, n) \o ">")
    IN  [m |-> m8, s |-> m8.bufs[b]]

\* n.HTMLString(), by the node's type
HTMLStringIn(m, n) ==
    CASE m.nodes[n].typ = NodeList -> ListHTMLStringIn(m, n)
      [] m.nodes[n].typ = NodeTag -> TagHTMLStringIn(m, n)
      [] m.nodes[n].typ = NodeDoctype -> DoctypeHTMLStringIn(m, n)
      [] OTHER -> [m |-> m, s |-> Bytes(m, n)]

\* tmpl.Root.HTMLString(): the nodes as the call leaves them in memory and
\* the string it returns
render(t) ==
    LET r == HTMLStringIn(Load(t.nodes), Root)
    IN  [t EXCEPT !.nodes = [n \in DOMAIN t.nodes |-> View(r.m)[n]],
                  !.html = r.s, !.calls = @ + 1]

Render ==
    /\ tb.calls < MaxRenders
    /\ tb' = render(tb)
    /\ UNCHANGED <<lx, toks>>

NextRender ==
    \/ RenderBuild
    \/ Render

SpecRender == InitRender /\ [][NextRender]_vars

---------------------------------------------------------------------------
(* C13 *)

\* C13: a call of render on the root leaves every node (kind, payload,
\* children and their order) as it was in memory, returns the rendering of
\* the tree, and a repeated call returns the string the call before it
\* returned.
C13_RenderHasNoSideEffects ==
    [][tb'.calls > tb.calls =>
          /\ tb'.nodes = tb.nodes
          /\ tb'.html = HTMLString(tb.nodes, Root)
          /\ tb.calls > 0 => tb'.html = tb.html]_vars

\* a tree with a Doctype and a Tag that has a class and a text has been
\* rendered twice
C13_Witness ==
    /\ tb.calls = MaxRenders
    /\ \E n \in DOMAIN tb.nodes : tb.nodes[n].typ = NodeDoctype
    /\ \E n \in DOMAIN tb.nodes :
          /\ tb.nodes[n].typ = NodeTag
          /\ \E c \in Range(tb.nodes[n].nodes) : tb.nodes[c].typ = NodeClass
          /\ \E c \in Range(tb.nodes[n].nodes) : tb.nodes[c].typ = NodeText
    /\ tb.html = HTMLString(tb.nodes, Root)
    /\ tb.html # ""

---------------------------------------------------------------------------
(* C14 *)

\* the Attr tokens delivered, in order
AttrTokens == SelectSeq(toks, LAMBDA t : t.typ = itemAttr)

\* C14: a parenthesized list of k segments after a tag name yields exactly
\* the k Attr tokens of its segments, in source order, each delivered to
\* the consumer, and the scan goes on to the end of the template.
C14_OneAttrPerSegment ==
    \A k \in 1..MaxAttrs, rest \in AttrTails :
        (lx.input = AttrListTemplate(k, rest) /\ Quiescent) =>
            /\ AttrTokens = [i \in 1..k |-> item(itemAttr, AttrSegment(i))]
            /\ tb.result = "ok"

---------------------------------------------------------------------------
(* C15 *)

\* C15: two slots of buffering are enough: the channel never holds more
\* than two pending tokens and no emit of a state function finds it full.
C15_TwoSlotsSuffice ==
    /\ Len(lx.items) <= ChanCap
    /\ lx.halt # "deadlock"

---------------------------------------------------------------------------
(* C16 *)

\* the state functions that begin by reading l.input[l.start]
ReadsStart == {"lexTag", "lexText", "lexIndent", "lexNewLine"}

\* C16: in every reachable scanner state 0 <= start <= pos <= len(input),
\* no slice or index expression is out of range, and a state function that
\* reads input[start] is entered only with start < len(input).
C16_ScannerBounds ==
    /\ 0 <= lx.start
    /\ lx.start <= lx.pos
    /\ lx.pos <= Len(lx.input)
    /\ lx.halt # "panic"
    /\ (Pulling /\ lx.items = <<>> /\ lx.state \in ReadsStart) => StartInRange(lx)

---------------------------------------------------------------------------
(* C17 *)

\* the number of leading spaces and tabs of a line
LeadingWhitespace(ln) == Len(ln) - Len(StripIndent(ln))

\* the source line token i is on: one more than the newline tokens before it
LineOfToken(i) == 1 + Cardinality({k \in 1..(i - 1) : toks[k].typ = itemEndl})

\* token i is the first token of its line that is not an indent token
FirstOtherToken(i) ==
    /\ toks[i].typ \notin IndentTokens \cup {itemEndl, itemError}
    /\ \A k \in 1..(i - 1) :
          (\A m \in k..(i - 1) : toks[m].typ # itemEndl) => toks[k].typ \in IndentTokens

\* C17: on every line, the first included, each leading space or tab is one
\* IndentSpace or IndentTab token with that character as its lexeme, so the
\* indent tokens before the line's first other token are as many as the
\* line's leading whitespace characters.
C17_OneIndentTokenPerCharacter ==
    \A i \in DOMAIN toks :
        /\ toks[i].typ = itemIdentSpace => toks[i].val = " "
        /\ toks[i].typ = itemIdentTab => toks[i].val = "\t"
        /\ (FirstOtherToken(i) /\ LineOfToken(i) <= Len(SplitLines(lx.input))) =>
              DepthOfToken(i) = LeadingWhitespace(SplitLines(lx.input)[LineOfToken(i)])

---------------------------------------------------------------------------
(* C18 *)

\* C18: with either marker and on the first or a later line, a doctype
\* line ended by a newline yields exactly one Doctype token, whose lexeme
\* is the text between the marker and its space and the newline, followed
\* by the newline token.
C18_DoctypeLine ==
    \A before \in DoctypeBefore, marker \in DoctypeMarkers,
       v \in DoctypeValues, after \in DoctypeAfter :
        (lx.input = DoctypeTemplate(before, marker, v, after) /\ Quiescent) =>
            /\ Cardinality(TokensOf(itemDoctype)) = 1
            /\ \A i \in TokensOf(itemDoctype) :
                  /\ toks[i].val = v
                  /\ i < Len(toks)
                  /\ toks[i + 1].typ = itemEndl

---------------------------------------------------------------------------
(* C19 *)

Delimiters == {".", "#", "(", ")", "|", " "}

\* the lines of DelimiterLines that end in the text t
TextLines == {"a t", "a#i t", "a.c t"}

\* C19: the lexeme of a Tag, Id, Class, Attr or Text token holds none of
\* the delimiters that introduced it, on the first line and on a later
\* one, and the Text after tag text, tag#id text and tag.class text is the
\* same string (stated for lines whose names and texts are single letters).
C19_LexemesExcludeDelimiters ==
    lx.input \in DelimiterTemplates =>
        /\ \A i \in DOMAIN toks :
              toks[i].typ \in {itemTag, itemId, itemClass, itemAttr, itemText} =>
                  \A j \in 0..(Len(toks[i].val) - 1) : Char(toks[i].val, j) \notin Delimiters
        /\ \A before \in DelimiterBefore, ln \in TextLines, after \in DelimiterAfter :
              (lx.input = before \o ln \o after /\ Quiescent) =>
                  {toks[i].val : i \in TokensOf(itemText)} = {"t"}

---------------------------------------------------------------------------
(* C20 *)

\* what follows the opening tag of Tag n: >, the renders of its Text and
\* Tag children in child order, and the closing tag
TagRest(h, n) ==
    ">" \o Renders(h, KidsOf(h, n, {NodeText, NodeTag})) \o "</" \o h[n].val \o ">"

\* C20: every Tag renders as <name ...>, the body, </name>: the closing
\* tag is written for every name, br included, with or without children,
\* and the body is the renders of exactly the Text and Tag children in
\* child order; Attr, Id and Class children add nothing to it.
C20_TagShape ==
    \A n \in NodesOf(NodeTag) :
        LET s == HTMLString(tb.nodes, n)
            open == Len(s) - Len(TagRest(tb.nodes, n))
        IN  /\ HasPrefix(s, "<" \o tb.nodes[n].val)
            /\ open >= Len(tb.nodes[n].val) + 1
            /\ Slice(s, open, Len(s)) = TagRest(tb.nodes, n)
            /\ \A j \in 0..(open - 1) : Char(s, j) # ">"

\* a br without children inside a p that has a class and a text
C20_Witness ==
    \E n \in NodesOf(NodeTag), m \in NodesOf(NodeTag) :
        /\ tb.nodes[m].val = "br"
        /\ tb.nodes[m].nodes = <<>>
        /\ HTMLString(tb.nodes, m) = "<br></br>"
        /\ m \in Range(tb.nodes[n].nodes)
        /\ HTMLString(tb.nodes, n) = "<p class=\"a\">t<br></br></p>"

====
